---- MODULE Spec2Model ----
(***************************************************************************)
(* The recurring API-usage tasks of api/organisations/tasks.py:            *)
(* usage notifications, overage billing, and the apply / lift passes of    *)
(* the API-limit access restriction.                                       *)
(*                                                                         *)
(* Time is counted in hours since 2021-01-01T00:00 (the years 2021-2023    *)
(* have 365 days each, the model stays inside them).                       *)
(***************************************************************************)
EXTENDS Integers, Sequences, FiniteSets, Bags, TLC

\* ------------------------------------------------------------------ bounds
\* The clock advances in steps of TickDays days, up to MaxDays days after
\* the start of the run.
TickDays == 10
MaxDays == 40
\* The notification log and the billing ledger hold at most MaxRows rows.
MaxRows == 5

\* --------------------------------------------------------------- time
Hours(n) == n
Days(n) == 24 * n

MonthLengths == <<31, 28, 31, 30, 31, 30, 31, 31, 30, 31, 30, 31>>

RECURSIVE DaysBeforeMonth(_)
DaysBeforeMonth(m) == IF m = 1 THEN 0 ELSE DaysBeforeMonth(m - 1) + MonthLengths[m - 1]

\* datetime(year, month, day, hour) as hours since the epoch; year 0 is 2021.
DateTime(y, m, d, h) == ((y * 365 + DaysBeforeMonth(m) + (d - 1)) * 24) + h

YearOf(t) == (t \div 24) \div 365
MonthOf(t) ==
    LET doy == (t \div 24) % 365
    IN  CHOOSE m \in 1..12 :
            /\ DaysBeforeMonth(m) <= doy
            /\ doy < DaysBeforeMonth(m) + MonthLengths[m]
DayOf(t) == ((t \div 24) % 365) - DaysBeforeMonth(MonthOf(t)) + 1
HourOf(t) == t % 24

Min(a, b) == IF a <= b THEN a ELSE b

\* dt + relativedelta(months=n), n >= 0: the day is clamped to the month's end.
AddMonths(t, n) ==
    LET total == (MonthOf(t) - 1) + n
        y == YearOf(t) + (total \div 12)
        m == (total % 12) + 1
    IN  DateTime(y, m, Min(DayOf(t), MonthLengths[m]), HourOf(t))

\* The whole months from dt2 up to dt1 (dt2 <= dt1), as relativedelta(dt1, dt2)
\* counts them before it splits them into years and months.
WholeMonths(dt1, dt2) ==
    LET first == (YearOf(dt1) - YearOf(dt2)) * 12 + (MonthOf(dt1) - MonthOf(dt2))
    IN  IF dt1 < AddMonths(dt2, first) THEN first - 1 ELSE first

\* relativedelta(dt1, dt2).months: the months left after the whole years.
RelativeDeltaMonths(dt1, dt2) == WholeMonths(dt1, dt2) % 12

\* relativedelta(dt1, dt2).days: the whole days left after the whole months.
RelativeDeltaDays(dt1, dt2) ==
    (dt1 - AddMonths(dt2, WholeMonths(dt1, dt2))) \div 24

\* ------------------------------------------------------ program constants
FREE_PLAN_ID == "free"
SCALE_UP == "scale-up"
SCALE_UP_V2 == "scale-up-v2"
STARTUP == "startup"
STARTUP_V2 == "startup-v2"

\* Days between a 100% notification and the restriction.
API_USAGE_GRACE_PERIOD == 2

\* The two orders of the alert thresholds the run may be configured with.
AscendingThresholds == <<50, 75, 90, 100>>
DescendingThresholds == <<100, 90, 75, 50>>

Organisations == {1, 2}

\* The orders in which a queryset may yield the organisations.
Orders == {s \in [1..Cardinality(Organisations) -> Organisations] :
               \A i, j \in DOMAIN s : i # j => s[i] # s[j]}

UsageValues == {950, 2100, 250000}

StartOfRun == DateTime(2, 2, 1, 0)

NoCache == [present |-> FALSE]

FreeSubscription ==
    [plan |-> FREE_PLAN_ID, subscription_id |-> "none", max_api_calls |-> 1000,
     cache |-> NoCache]

ScaleUpSubscription ==
    [plan |-> SCALE_UP, subscription_id |-> "sub-scale-up", max_api_calls |-> 1000,
     cache |-> [present |-> TRUE,
                current_billing_term_starts_at |-> DateTime(2, 1, 31, 0),
                current_billing_term_ends_at |-> StartOfRun + Days(3 * TickDays),
                allowed_30d_api_calls |-> 1000]]

\* A start-up plan, its term closing like the scale-up one's.
StartupSubscription ==
    [ScaleUpSubscription EXCEPT !.plan = STARTUP, !.subscription_id = "sub-startup"]

\* A paid plan without a billing mutation.
ENTERPRISE == "enterprise"

EnterpriseSubscription ==
    [ScaleUpSubscription EXCEPT !.plan = ENTERPRISE, !.subscription_id = "sub-enterprise"]

\* A paid plan whose subscription information cache is missing.
UncachedSubscription ==
    [ScaleUpSubscription EXCEPT !.subscription_id = "sub-uncached", !.cache = NoCache]

\* A free plan with no API calls allowed.
ZeroAllowanceSubscription ==
    [FreeSubscription EXCEPT !.max_api_calls = 0]

\* Organisations on the other plans, next to one the tasks act on.
PlanProfiles ==
    {<<EnterpriseSubscription, StartupSubscription>>,
     <<UncachedSubscription, FreeSubscription>>,
     <<ZeroAllowanceSubscription, FreeSubscription>>}

\* The organisations of a run: both free, one free and one paid, both paid.
SubscriptionProfiles ==
    {<<FreeSubscription, FreeSubscription>>,
     <<FreeSubscription, ScaleUpSubscription>>,
     <<ScaleUpSubscription,
       [ScaleUpSubscription EXCEPT !.subscription_id = "sub-scale-up-2"]>>}

VARIABLES
    now,                    \* timezone.now()
    thresholds,             \* API_USAGE_ALERT_THRESHOLDS
    subscription,           \* Organisation.subscription, with its information cache
    api_usage,              \* what get_current_api_usage returns per organisation
    notifications,          \* OrganisationAPIUsageNotification rows (a bag)
    billings,               \* OrganisationAPIBilling rows (a bag)
    chargebee,              \* the add_100k_api_calls_* calls made, in order
    stop_serving_flags,     \* Organisation.stop_serving_flags
    block_access_to_admin,  \* Organisation.block_access_to_admin
    api_limit_access_block, \* whether the organisation has an APILimitAccessBlock
    invocations             \* the task invocations running side by side

vars == <<now, thresholds, subscription, api_usage, notifications, billings,
          chargebee, stop_serving_flags, block_access_to_admin,
          api_limit_access_block, invocations>>

config == <<thresholds, subscription>>
restriction == <<stop_serving_flags, block_access_to_admin, api_limit_access_block>>

\* Two invocations of a task may be in flight at once; in a run of one
\* invocation after the other none is ever in flight between the steps.
Workers == {1, 2}
Idle == [task |-> "idle", todo |-> <<>>, started_at |-> 0, decision |-> {}]
NoInvocations == [w \in Workers |-> Idle]

\* ------------------------------------------------------------ helpers
is_free_plan(o) == subscription[o].plan = FREE_PLAN_ID
has_subscription_information_cache(o) == subscription[o].cache.present

Rows(bag) == BagToSet(bag)
AddRow(bag, row) == bag (+) SetToBag({row})

\* is_feature_enabled taken for granted.
feature_always_enabled(o, enabled) == TRUE

\* flags.is_feature_enabled(...) for organisation o, `enabled` being the
\* organisations the flag engine answers True for.
is_feature_enabled(o, enabled) == o \in enabled

\* ------------------------------------------------- failing external calls
\* During a pass at most one organisation's external call fails: NoFault, or
\* the call named raises the exception named while that organisation is
\* processed.
NoFault == [organisation |-> 0, call |-> "none", raises |-> "none"]

FaultsOf(calls, exceptions) ==
    {NoFault} \cup [organisation : Organisations, call : calls, raises : exceptions]

\* What `call` raises for organisation o under `fault` ("none": it returns).
raised_by(fault, o, call) ==
    IF fault.organisation = o /\ fault.call = call THEN fault.raises ELSE "none"

\* ------------------------------------------------- usage notifications
\* int(100 * api_usage / allowed_api_calls), both non-negative.
api_usage_percent(usage, allowed) == (100 * usage) \div allowed

\* The loop over API_USAGE_ALERT_THRESHOLDS: {} is None, {t} is threshold t.
RECURSIVE threshold_loop(_, _, _, _)
threshold_loop(ths, i, percent, matched) ==
    IF i > Len(ths) THEN matched
    ELSE IF ths[i] > percent THEN matched
    ELSE threshold_loop(ths, i + 1, percent, {ths[i]})

\* The loop breaking on threshold >= percent in place of threshold > percent.
RECURSIVE threshold_loop_ge(_, _, _, _)
threshold_loop_ge(ths, i, percent, matched) ==
    IF i > Len(ths) THEN matched
    ELSE IF ths[i] >= percent THEN matched
    ELSE threshold_loop_ge(ths, i + 1, percent, {ths[i]})

matched_threshold_ge(ths, percent) == threshold_loop_ge(ths, 1, percent, {})

matched_threshold(ths, percent) == threshold_loop(ths, 1, percent, {})

allowed_api_calls(o) ==
    IF is_free_plan(o) THEN subscription[o].max_api_calls
    ELSE subscription[o].cache.allowed_30d_api_calls

\* Start of the period organisation o is in at time t.
period_starts_at(o, t) ==
    IF is_free_plan(o) THEN t - Days(30)
    ELSE LET billing_starts_at == subscription[o].cache.current_billing_term_starts_at
             month_delta == RelativeDeltaMonths(t, billing_starts_at)
         IN  AddMonths(billing_starts_at, month_delta)

\* The usage window in days: 30 on the free plan, relativedelta(now,
\* period_starts_at).days with a cache.
usage_window_days(o, t) ==
    IF is_free_plan(o) THEN 30
    ELSE RelativeDeltaDays(t, period_starts_at(o, t))

\* get_current_api_usage(organisation.id, f"-{days}d"): the backend's answer.
get_current_api_usage(o, days) == api_usage[o]

\* The lookup with percent_usage__gt in place of percent_usage__gte.
notification_exists_gt(rows, o, starts_at, matched) ==
    \E r \in Rows(rows) :
        /\ r.notified_at > starts_at
        /\ r.percent_usage > matched

\* The lookup that decides "already sent the max notification level": it
\* filters on notified_at and percent_usage, not on the organisation.
notification_exists(rows, o, starts_at, matched) ==
    \E r \in Rows(rows) :
        /\ r.notified_at > starts_at
        /\ r.percent_usage >= matched

send_api_usage_notification(rows, o, matched) ==
    AddRow(rows, [organisation |-> o, percent_usage |-> matched, notified_at |-> now])

\* _handle_api_usage_notifications(organisation) on the log `rows` with the
\* usage backend answering `usage`: the log afterwards.
_handle_api_usage_notifications(rows, o, usage) ==
    IF ~is_free_plan(o) /\ ~has_subscription_information_cache(o) THEN rows
    ELSE IF allowed_api_calls(o) = 0 THEN rows
    ELSE LET matched == matched_threshold(thresholds,
                            api_usage_percent(usage, allowed_api_calls(o)))
         IN  IF matched = {} THEN rows
             ELSE LET threshold == CHOOSE t \in matched : TRUE
                  IN  IF notification_exists(rows, o, period_starts_at(o, now), threshold)
                      THEN rows
                      ELSE send_api_usage_notification(rows, o, threshold)

\* Whether the flow for o gets as far as send_api_usage_notification.
notification_due(rows, o, usage) ==
    _handle_api_usage_notifications(rows, o, usage) # rows

\* The flow raising for a missing cache in place of logging and returning.
handle_raises_missing_cache(rows, o, usage, fault) ==
    IF ~is_free_plan(o) /\ ~has_subscription_information_cache(o)
    THEN "MissingBillingCache"
    ELSE raised_by(fault, o, "get_current_api_usage")

\* The exception _handle_api_usage_notifications(organisation) raises, "none"
\* when it returns: the usage query's, ZeroDivisionError on a zero
\* allowance, or the template rendering's once the flow gets to the mail.
handle_raises(rows, o, usage, fault) ==
    IF ~is_free_plan(o) /\ ~has_subscription_information_cache(o) THEN "none"
    ELSE IF raised_by(fault, o, "get_current_api_usage") # "none"
    THEN raised_by(fault, o, "get_current_api_usage")
    ELSE IF allowed_api_calls(o) = 0 THEN "ZeroDivisionError"
    ELSE IF raised_by(fault, o, "render_to_string") = "none" THEN "none"
    ELSE IF notification_due(rows, o, usage)
    THEN raised_by(fault, o, "render_to_string")
    ELSE "none"

\* except RuntimeError.
caught(exception) == exception = "RuntimeError"

NotificationFaults ==
    FaultsOf({"get_current_api_usage", "render_to_string"}, {"RuntimeError", "Exception"})

\* The loop of handle_api_usage_notifications over the organisations in
\* `order`; `alerting` are those with api_usage_alerting enabled. st holds
\* the log, the organisations the loop has got to, and the exception that
\* ended the pass ("none": it ran to its end).
RECURSIVE notification_loop(_, _, _, _, _)
notification_loop(st, order, i, alerting, fault) ==
    IF i > Len(order) THEN st
    ELSE LET o == order[i]
             reached == [st EXCEPT !.visited = Append(@, o)]
             usage == get_current_api_usage(o, usage_window_days(o, now))
             exception == handle_raises(st.rows, o, usage, fault)
         IN  IF ~is_feature_enabled(o, alerting)
             THEN notification_loop(reached, order, i + 1, alerting, fault)
             ELSE IF exception = "none"
             THEN notification_loop(
                      [reached EXCEPT !.rows =
                          _handle_api_usage_notifications(@, o, usage)],
                      order, i + 1, alerting, fault)
             ELSE IF caught(exception)
             THEN notification_loop(reached, order, i + 1, alerting, fault)
             ELSE [reached EXCEPT !.raised = exception]

\* One pass over the log `rows`.
notification_pass(rows, order, alerting, fault) ==
    notification_loop([rows |-> rows, visited |-> <<>>, raised |-> "none"],
                      order, 1, alerting, fault)

\* A run of the task in which the external calls fail as one of `faults`.
handle_api_usage_notifications_under(faults) ==
    \E order \in Orders, alerting \in SUBSET Organisations, fault \in faults :
        LET rows == notification_pass(notifications, order, alerting, fault).rows
        IN  /\ BagCardinality(rows) <= MaxRows
            /\ notifications' = rows
            /\ UNCHANGED <<now, config, invocations, api_usage, billings, chargebee, restriction>>

\* A run in which every external call returns.
handle_api_usage_notifications == handle_api_usage_notifications_under({NoFault})

\* A run in which the usage query or the template rendering may fail.
handle_api_usage_notifications_failing ==
    handle_api_usage_notifications_under(NotificationFaults)

\* ---------------------------------------------------- overage billing
API_CALLS_PER_UNIT == 100000

RECURSIVE SumOverage(_, _)
SumOverage(bag, rows) ==
    IF rows = {} THEN 0
    ELSE LET r == CHOOSE x \in rows : TRUE
         IN  r.api_overage * CopiesIn(r, bag) + SumOverage(bag, rows \ {r})

\* sum of api_overage over the rows filtered by billed_at >= term start,
\* whichever organisation they belong to.
previous_api_overage(bills, o) ==
    SumOverage(bills,
        {r \in Rows(bills) :
            r.billed_at >= subscription[o].cache.current_billing_term_starts_at})

\* math.ceil(api_overage) with the division by 100_000 forgotten.
overage_units_undivided(api_overage) == api_overage

\* math.ceil(api_overage / 100_000) for api_overage > 0.
overage_units(api_overage) ==
    (api_overage + (API_CALLS_PER_UNIT - 1)) \div API_CALLS_PER_UNIT

\* The overage with what was billed before left out of the limit.
api_overage_ignoring_previous(bills, o, usage) ==
    usage - subscription[o].cache.allowed_30d_api_calls

api_overage_of(bills, o, usage) ==
    usage - (subscription[o].cache.allowed_30d_api_calls + previous_api_overage(bills, o))

\* The ledger row with the number of units in place of the number of calls.
billing_row_units(o, units) ==
    [organisation |-> o, api_overage |-> units, billed_at |-> now]

\* The OrganisationAPIBilling row recorded after the billing call.
billing_row(o, units) ==
    [organisation |-> o, api_overage |-> API_CALLS_PER_UNIT * units, billed_at |-> now]

\* The organisations the overage pass iterates.
charge_candidates ==
    LET api_usage_notified_at == now - Days(30)
        closing_billing_term == now + Hours(1)
        organisation_ids ==
            {r.organisation : r \in
                {x \in Rows(notifications) :
                    /\ x.notified_at >= api_usage_notified_at
                    /\ x.percent_usage >= 100}}
    IN  {o \in organisation_ids :
            /\ subscription[o].cache.present
            /\ subscription[o].cache.current_billing_term_ends_at <= closing_billing_term
            /\ subscription[o].cache.current_billing_term_ends_at >= now
            /\ subscription[o].cache.current_billing_term_starts_at
                   <= subscription[o].cache.current_billing_term_ends_at - Days(25)
            /\ subscription[o].cache.current_billing_term_starts_at
                   >= subscription[o].cache.current_billing_term_ends_at - Days(35)
            /\ subscription[o].plan # FREE_PLAN_ID}

\* Every plan billed as a start-up plan unless it is a scale-up plan.
billing_call_default_start_up(plan) ==
    IF plan \in {SCALE_UP, SCALE_UP_V2} THEN {"add_100k_api_calls_scale_up"}
    ELSE {"add_100k_api_calls_start_up"}

\* The billing mutation the plan maps to; {} for a plan without one.
billing_call(plan) ==
    IF plan \in {SCALE_UP, SCALE_UP_V2} THEN {"add_100k_api_calls_scale_up"}
    ELSE IF plan \in {STARTUP, STARTUP_V2} THEN {"add_100k_api_calls_start_up"}
    ELSE {}

\* One iteration of the loop body for organisation o when no call fails:
\* st holds the ledger and the billing calls made so far.
charge_organisation(st, o, charging) ==
    IF ~is_feature_enabled(o, charging) THEN st
    ELSE IF api_usage[o] < 2 * subscription[o].cache.allowed_30d_api_calls THEN st
    ELSE LET api_overage == api_overage_of(st.billings, o, api_usage[o])
             units == overage_units(api_overage)
             calls == billing_call(subscription[o].plan)
         IN  IF api_overage <= 0 THEN st
             ELSE IF calls = {} THEN st
             ELSE [st EXCEPT
                      !.chargebee =
                          Append(@, [call |-> CHOOSE c \in calls : TRUE,
                                     subscription_id |-> subscription[o].subscription_id,
                                     count |-> units]),
                      !.billings = AddRow(@, billing_row(o, units))]

\* The exception the loop body raises for o, "none" when it completes: the
\* usage query's, ZeroDivisionError on a zero allowance, or the billing
\* mutation's once the body gets to it.
charge_raises(st, o, charging, fault) ==
    IF ~is_feature_enabled(o, charging) THEN "none"
    ELSE IF raised_by(fault, o, "get_current_api_usage") # "none"
    THEN raised_by(fault, o, "get_current_api_usage")
    ELSE IF subscription[o].cache.allowed_30d_api_calls = 0 THEN "ZeroDivisionError"
    ELSE IF raised_by(fault, o, "add_100k_api_calls") = "none" THEN "none"
    ELSE IF charge_organisation(st, o, charging).chargebee # st.chargebee
    THEN raised_by(fault, o, "add_100k_api_calls")
    ELSE "none"

ChargeFaults == FaultsOf({"get_current_api_usage", "add_100k_api_calls"}, {"Exception"})

\* The loop over the queryset in `order`: no exception is caught, the first
\* one raised ends the pass. st also holds the organisations the loop has
\* got to and the exception that ended the pass.
RECURSIVE charge_loop(_, _, _, _, _, _)
charge_loop(st, order, i, candidates, charging, fault) ==
    IF i > Len(order) THEN st
    ELSE IF order[i] \notin candidates
    THEN charge_loop(st, order, i + 1, candidates, charging, fault)
    ELSE LET o == order[i]
             reached == [st EXCEPT !.visited = Append(@, o)]
             exception == charge_raises(st, o, charging, fault)
         IN  IF exception = "none"
             THEN charge_loop(charge_organisation(reached, o, charging),
                              order, i + 1, candidates, charging, fault)
             ELSE [reached EXCEPT !.raised = exception]

\* One pass over the ledger and the billing calls made so far.
charge_pass(bills, calls, order, charging, fault) ==
    charge_loop([billings |-> bills, chargebee |-> calls,
                 visited |-> <<>>, raised |-> "none"],
                order, 1, charge_candidates, charging, fault)

\* A run of the task in which the external calls fail as one of `faults`.
charge_for_api_call_count_overages_under(faults) ==
    \E order \in Orders, charging \in SUBSET charge_candidates, fault \in faults :
        LET st == charge_pass(billings, chargebee, order, charging, fault)
        IN  /\ BagCardinality(st.billings) <= MaxRows
            /\ billings' = st.billings
            /\ chargebee' = st.chargebee
            /\ UNCHANGED <<now, config, invocations, api_usage, notifications, restriction>>

\* A run in which every external call returns.
charge_for_api_call_count_overages ==
    charge_for_api_call_count_overages_under({NoFault})

\* A run in which the usage query or the billing mutation may fail.
charge_for_api_call_count_overages_failing ==
    charge_for_api_call_count_overages_under(ChargeFaults)

\* ------------------------------------------------- access restriction
\* The same without the grace period's filter (notified_at__lt).
restrict_notified_ids_no_grace ==
    LET month_start == now - Days(30)
    IN  {r.organisation : r \in
            {x \in Rows(notifications) :
                /\ x.notified_at > month_start
                /\ x.percent_usage >= 100}}

\* Organisations with a >= 100% notification inside the month and before
\* the grace period.
restrict_notified_ids ==
    LET grace_period == now - Days(API_USAGE_GRACE_PERIOD)
        month_start == now - Days(30)
    IN  {r.organisation : r \in
            {x \in Rows(notifications) :
                /\ x.notified_at > month_start
                /\ x.notified_at < grace_period
                /\ x.percent_usage >= 100}}

\* The queryset `organisations` of the apply pass.
restrict_organisations ==
    {o \in restrict_notified_ids :
        /\ subscription[o].plan = FREE_PLAN_ID
        /\ ~api_limit_access_block[o]
        /\ ~(stop_serving_flags[o] /\ block_access_to_admin[o])}

\* The loop without its `continue` when neither gate is enabled.
update_organisations_no_continue(stop_serving, block_access) ==
    restrict_organisations

\* update_organisations under the feature gates' answers.
update_organisations(stop_serving, block_access) ==
    {o \in restrict_organisations : o \in stop_serving \/ o \in block_access}

restrict_with(stop_serving, block_access) ==
    LET updated == update_organisations(stop_serving, block_access)
    IN  /\ stop_serving_flags' =
               [o \in Organisations |->
                   IF o \in updated THEN o \in stop_serving ELSE stop_serving_flags[o]]
        /\ block_access_to_admin' =
               [o \in Organisations |->
                   IF o \in updated THEN o \in block_access ELSE block_access_to_admin[o]]
        /\ api_limit_access_block' =
               [o \in Organisations |-> api_limit_access_block[o] \/ o \in updated]
        /\ UNCHANGED <<now, config, invocations, api_usage, notifications, billings, chargebee>>

restrict_use_due_to_api_limit_grace_period_over ==
    \E stop_serving \in SUBSET restrict_organisations,
       block_access \in SUBSET restrict_organisations :
        restrict_with(stop_serving, block_access)

still_restricted_organisation_ids ==
    LET month_start == now - Days(30)
    IN  {r.organisation : r \in
            {x \in Rows(notifications) :
                /\ x.notified_at > month_start
                /\ x.percent_usage >= 100}}

blocked_organisation_ids == {o \in Organisations : api_limit_access_block[o]}

\* The difference forgotten: every blocked organisation matches.
matching_organisations_all_blocked == blocked_organisation_ids

\* The intersection in place of the difference.
matching_organisations_intersection ==
    blocked_organisation_ids \cap still_restricted_organisation_ids

\* The difference taken the other way round.
matching_organisations_reversed ==
    still_restricted_organisation_ids \ blocked_organisation_ids

matching_organisations == blocked_organisation_ids \ still_restricted_organisation_ids

unrestrict_after_api_limit_grace_period_is_stale ==
    /\ stop_serving_flags' =
           [o \in Organisations |->
               IF o \in matching_organisations THEN FALSE ELSE stop_serving_flags[o]]
    /\ block_access_to_admin' =
           [o \in Organisations |->
               IF o \in matching_organisations THEN FALSE ELSE block_access_to_admin[o]]
    /\ api_limit_access_block' =
           [o \in Organisations |->
               IF o \in matching_organisations THEN FALSE ELSE api_limit_access_block[o]]
    /\ UNCHANGED <<now, config, invocations, api_usage, notifications, billings, chargebee>>

\* -------------------------------------------------------- environment
\* The clock advances.
Tick ==
    /\ now + Days(TickDays) <= StartOfRun + Days(MaxDays)
    /\ now' = now + Days(TickDays)
    /\ UNCHANGED <<config, invocations, api_usage, notifications, billings, chargebee,
                   restriction>>

\* The usage backend measures another count for an organisation.
MeasureUsage(values) ==
    \E o \in Organisations, u \in values :
        /\ api_usage' = [api_usage EXCEPT ![o] = u]
        /\ UNCHANGED <<now, config, invocations, notifications, billings, chargebee, restriction>>

UsageChanges == MeasureUsage(UsageValues)

Init ==
    /\ now = StartOfRun
    /\ thresholds \in {AscendingThresholds, DescendingThresholds}
    /\ subscription \in SubscriptionProfiles
    /\ api_usage \in [Organisations -> UsageValues]
    /\ notifications = EmptyBag
    /\ billings = EmptyBag
    /\ chargebee = <<>>
    /\ stop_serving_flags = [o \in Organisations |-> FALSE]
    /\ block_access_to_admin = [o \in Organisations |-> FALSE]
    /\ api_limit_access_block = [o \in Organisations |-> FALSE]
    /\ invocations = NoInvocations

Next ==
    \/ Tick
    \/ UsageChanges
    \/ handle_api_usage_notifications
    \/ charge_for_api_call_count_overages
    \/ restrict_use_due_to_api_limit_grace_period_over
    \/ unrestrict_after_api_limit_grace_period_is_stale

Spec == Init /\ [][Next]_vars

\* The scheduler keeps dispatching the lift pass (every 12 hours) and the
\* clock keeps advancing.
FairSpec ==
    /\ Spec
    /\ WF_vars(Tick)
    /\ WF_vars(unrestrict_after_api_limit_grace_period_is_stale)

\* ------------------------------------- the other plans, with failing calls
\* Usage counts over twice the allowance of 1000.
PlanUsageValues == {2100, 250000}

PlanUsageChanges == MeasureUsage(PlanUsageValues)

InitPlans ==
    /\ now = StartOfRun
    /\ thresholds = AscendingThresholds
    /\ subscription \in PlanProfiles
    /\ api_usage \in [Organisations -> PlanUsageValues]
    /\ notifications = EmptyBag
    /\ billings = EmptyBag
    /\ chargebee = <<>>
    /\ stop_serving_flags = [o \in Organisations |-> FALSE]
    /\ block_access_to_admin = [o \in Organisations |-> FALSE]
    /\ api_limit_access_block = [o \in Organisations |-> FALSE]
    /\ invocations = NoInvocations

NextPlans ==
    \/ Tick
    \/ PlanUsageChanges
    \/ handle_api_usage_notifications_failing
    \/ charge_for_api_call_count_overages_failing
    \/ restrict_use_due_to_api_limit_grace_period_over
    \/ unrestrict_after_api_limit_grace_period_is_stale

SpecPlans == InitPlans /\ [][NextPlans]_vars

\* ------------------------------------------------ overlapping invocations
\* Two invocations of the same task run side by side, every feature enabled
\* and every call returning. An invocation goes through its organisations
\* one by one; for each it first queries the store and decides, and in a
\* later step writes what it decided. Between the two steps the other
\* invocation may take its own.
OverlapUsage == [o \in Organisations |-> 2100]

CandidatesIn(order) == SelectSeq(order, LAMBDA o : o \in charge_candidates)

\* The invocation after it is done with the organisation at the head.
Advance(inv) ==
    IF Len(inv.todo) = 1 THEN Idle
    ELSE [inv EXCEPT !.todo = Tail(@), !.decision = {}]

\* The scheduler dispatches `task` to worker w while no other task runs.
begin_task(w, task) ==
    /\ invocations[w] = Idle
    /\ \A v \in Workers : invocations[v].task \in {"idle", task}
    /\ \E order \in Orders :
           LET todo == IF task = "charge" THEN CandidatesIn(order) ELSE order
           IN  /\ todo # <<>>
               /\ invocations' =
                      [invocations EXCEPT ![w] =
                          [task |-> task, todo |-> todo, started_at |-> now,
                           decision |-> {}]]
    /\ UNCHANGED <<now, config, api_usage, notifications, billings, chargebee, restriction>>

\* _handle_api_usage_notifications up to the lookup's answer (lines 155-201).
lookup_notification(w) ==
    LET inv == invocations[w]
        o == Head(inv.todo)
        usage == get_current_api_usage(o, usage_window_days(o, now))
    IN  /\ inv.task = "notify"
        /\ inv.decision = {}
        /\ invocations' =
               [invocations EXCEPT ![w] =
                   IF notification_due(notifications, o, usage)
                   THEN [inv EXCEPT !.decision =
                            matched_threshold(thresholds,
                                api_usage_percent(usage, allowed_api_calls(o)))]
                   ELSE Advance(inv)]
        /\ UNCHANGED <<now, config, api_usage, notifications, billings, chargebee,
                       restriction>>

\* send_api_usage_notification (line 203).
create_notification(w) ==
    LET inv == invocations[w]
        o == Head(inv.todo)
    IN  /\ inv.task = "notify"
        /\ inv.decision # {}
        /\ BagCardinality(notifications) < MaxRows
        /\ notifications' =
               send_api_usage_notification(notifications, o,
                                           CHOOSE t \in inv.decision : TRUE)
        /\ invocations' = [invocations EXCEPT ![w] = Advance(inv)]
        /\ UNCHANGED <<now, config, api_usage, billings, chargebee, restriction>>

\* The overage loop's body up to the overage it computes (lines 280-307).
read_ledger(w) ==
    LET inv == invocations[w]
        o == Head(inv.todo)
        st == [billings |-> billings, chargebee |-> chargebee]
    IN  /\ inv.task = "charge"
        /\ inv.decision = {}
        /\ invocations' =
               [invocations EXCEPT ![w] =
                   IF charge_organisation(st, o, {o}) = st THEN Advance(inv)
                   ELSE [inv EXCEPT !.decision =
                            {overage_units(api_overage_of(billings, o, api_usage[o]))}]]
        /\ UNCHANGED <<now, config, api_usage, notifications, billings, chargebee,
                       restriction>>

\* The billing call and the row recorded after it (lines 309-332).
bill_and_record(w) ==
    LET inv == invocations[w]
        o == Head(inv.todo)
        units == CHOOSE n \in inv.decision : TRUE
    IN  /\ inv.task = "charge"
        /\ inv.decision # {}
        /\ BagCardinality(billings) < MaxRows
        /\ chargebee' =
               Append(chargebee,
                      [call |-> CHOOSE c \in billing_call(subscription[o].plan) : TRUE,
                       subscription_id |-> subscription[o].subscription_id,
                       count |-> units])
        /\ billings' =
               AddRow(billings, [organisation |-> o,
                                 api_overage |-> API_CALLS_PER_UNIT * units,
                                 billed_at |-> inv.started_at])
        /\ invocations' = [invocations EXCEPT ![w] = Advance(inv)]
        /\ UNCHANGED <<now, config, api_usage, notifications, restriction>>

\* The clock's step is days and an invocation takes seconds: the clock
\* advances between the invocations.
TickBetweenInvocations == Tick /\ invocations = NoInvocations

InitOverlap ==
    /\ now = StartOfRun
    /\ thresholds = AscendingThresholds
    /\ subscription \in SubscriptionProfiles
    /\ api_usage = OverlapUsage
    /\ notifications = EmptyBag
    /\ billings = EmptyBag
    /\ chargebee = <<>>
    /\ stop_serving_flags = [o \in Organisations |-> FALSE]
    /\ block_access_to_admin = [o \in Organisations |-> FALSE]
    /\ api_limit_access_block = [o \in Organisations |-> FALSE]
    /\ invocations = NoInvocations

NextOverlap ==
    \/ TickBetweenInvocations
    \/ \E w \in Workers :
           \/ begin_task(w, "notify")
           \/ begin_task(w, "charge")
           \/ lookup_notification(w)
           \/ create_notification(w)
           \/ read_ledger(w)
           \/ bill_and_record(w)

SpecOverlap == InitOverlap /\ [][NextOverlap]_vars

\* ------------------------------------------- the period resolution alone
\* The notification flow at instants around the month's end, for billing
\* terms that started on the 15th or the 31st, one or two months or more
\* than a year before.
PeriodInstants ==
    {DateTime(2, 2, 1, 0), DateTime(2, 2, 15, 0), DateTime(2, 2, 28, 12),
     DateTime(2, 3, 1, 0), DateTime(2, 3, 30, 0), DateTime(2, 3, 31, 6)}

TermStarts ==
    {DateTime(2, 1, 15, 0), DateTime(2, 1, 31, 0), DateTime(1, 12, 31, 0),
     DateTime(0, 12, 15, 0)}

TermStartingAt(t) ==
    [ScaleUpSubscription EXCEPT !.cache.current_billing_term_starts_at = t,
                                !.cache.current_billing_term_ends_at = AddMonths(t, 1)]

InitPeriod ==
    /\ now \in PeriodInstants
    /\ thresholds = AscendingThresholds
    /\ subscription \in {<<FreeSubscription, TermStartingAt(t)>> : t \in TermStarts}
    /\ api_usage \in [Organisations -> UsageValues]
    /\ notifications = EmptyBag
    /\ billings = EmptyBag
    /\ chargebee = <<>>
    /\ stop_serving_flags = [o \in Organisations |-> FALSE]
    /\ block_access_to_admin = [o \in Organisations |-> FALSE]
    /\ api_limit_access_block = [o \in Organisations |-> FALSE]
    /\ invocations = NoInvocations

NextPeriod ==
    \/ UsageChanges
    \/ handle_api_usage_notifications

SpecPeriod == InitPeriod /\ [][NextPeriod]_vars

\* ------------------------------------ flags set outside the API-limit tasks
\* Organisation.stop_serving_flags and Organisation.block_access_to_admin
\* are plain fields: an organisation may have either set, with no
\* APILimitAccessBlock, when the apply pass finds it (its queryset leaves
\* out those with both set).
InitFlags ==
    /\ now = StartOfRun
    /\ thresholds = AscendingThresholds
    /\ subscription = <<FreeSubscription, FreeSubscription>>
    /\ api_usage \in [Organisations -> PlanUsageValues]
    /\ notifications = EmptyBag
    /\ billings = EmptyBag
    /\ chargebee = <<>>
    /\ stop_serving_flags \in [Organisations -> BOOLEAN]
    /\ block_access_to_admin \in [Organisations -> BOOLEAN]
    /\ api_limit_access_block = [o \in Organisations |-> FALSE]
    /\ invocations = NoInvocations

NextFlags ==
    \/ Tick
    \/ handle_api_usage_notifications
    \/ restrict_use_due_to_api_limit_grace_period_over
    \/ unrestrict_after_api_limit_grace_period_is_stale

SpecFlags == InitFlags /\ [][NextFlags]_vars

\* ------------------------------------------ the threshold matching alone
\* The notification flow on every threshold list sorted one way or the
\* other, with usage counts around the thresholds and two limits.
ThresholdValues == {50, 75, 90, 100}

IsAscending(ths) == \A i \in 1..(Len(ths) - 1) : ths[i] < ths[i + 1]
IsDescending(ths) == \A i \in 1..(Len(ths) - 1) : ths[i] > ths[i + 1]

MatchThresholdLists ==
    UNION {{ths \in [1..n -> ThresholdValues] : IsAscending(ths) \/ IsDescending(ths)} :
              n \in 1..Cardinality(ThresholdValues)}

MatchUsageValues == {0, 150, 499, 500, 950, 1000, 1200}

FreeWithLimit(limit) == [FreeSubscription EXCEPT !.max_api_calls = limit]

InitMatch ==
    /\ now = StartOfRun
    /\ thresholds \in MatchThresholdLists
    /\ subscription = <<FreeWithLimit(1000), FreeWithLimit(300)>>
    /\ api_usage = [o \in Organisations |-> 0]
    /\ notifications = EmptyBag
    /\ billings = EmptyBag
    /\ chargebee = <<>>
    /\ stop_serving_flags = [o \in Organisations |-> FALSE]
    /\ block_access_to_admin = [o \in Organisations |-> FALSE]
    /\ api_limit_access_block = [o \in Organisations |-> FALSE]
    /\ invocations = NoInvocations

MatchUsageChanges == MeasureUsage(MatchUsageValues)

NextMatch ==
    \/ MatchUsageChanges
    \/ handle_api_usage_notifications

SpecMatch == InitMatch /\ [][NextMatch]_vars

\* ================================================================ claims
\* How many rows of the bag satisfy the test.
RECURSIVE CountRows(_, _)
CountRows(bag, rows) ==
    IF rows = {} THEN 0
    ELSE LET r == CHOOSE x \in rows : TRUE
         IN  CopiesIn(r, bag) + CountRows(bag, rows \ {r})

\* The instants at which a run of the notification flow has been or is
\* being evaluated: now, and the notified_at of every row.
EvaluationTimes == {now} \cup {r.notified_at : r \in Rows(notifications)}

\* The rows of organisation o at threshold th inside the period that is
\* current at time t.
RowsInPeriod(o, th, t) ==
    {r \in Rows(notifications) :
        /\ r.organisation = o
        /\ r.percent_usage = th
        /\ r.notified_at > period_starts_at(o, t)
        /\ r.notified_at <= t}

\* C1: after any sequence of runs of the notification flow the log holds at
\* most one row per (organisation, period, threshold), a period being the
\* instants after its start as the lookup compares them; and with the clock
\* inside the period (after its start) a run adds at most one row and a
\* second run with the same organisation, usage and period adds none.
C1_OneRowPerPeriodAndThreshold ==
    /\ \A o \in Organisations, t \in EvaluationTimes, i \in DOMAIN thresholds :
           CountRows(notifications, RowsInPeriod(o, thresholds[i], t)) <= 1
    /\ \A o \in Organisations, u \in UsageValues :
           period_starts_at(o, now) < now =>
               LET once == _handle_api_usage_notifications(notifications, o, u)
                   twice == _handle_api_usage_notifications(once, o, u)
               IN  /\ twice = once
                   /\ BagCardinality(once) <= BagCardinality(notifications) + 1

\* C1 witness: an organisation has been notified in its current period at
\* the threshold its present usage matches, and the log also holds a row
\* of an earlier period.
C1_Witness ==
    \E o \in Organisations, r \in Rows(notifications) :
        /\ r.organisation = o
        /\ r.notified_at > period_starts_at(o, now)
        /\ matched_threshold(thresholds,
               api_usage_percent(api_usage[o], allowed_api_calls(o))) = {r.percent_usage}
        /\ \E q \in Rows(notifications) :
               /\ q.organisation = o
               /\ q.percent_usage = r.percent_usage
               /\ q.notified_at <= period_starts_at(o, now)

\* The organisations with a subscription information cache.
CachedOrganisations == {o \in Organisations : has_subscription_information_cache(o)}

\* The ledger rows of organisation o billed within its current term.
OwnRowsInTerm(bills, o) ==
    {r \in Rows(bills) :
        /\ r.organisation = o
        /\ r.billed_at >= subscription[o].cache.current_billing_term_starts_at}

Ledger == [billings |-> billings, chargebee |-> chargebee]

\* The overage the pass computes for o is not positive.
OverageCovered(o) == api_overage_of(billings, o, api_usage[o]) <= 0

\* The loop body, run for o with the feature enabled, makes no billing call
\* and records no row.
NoCharge(o) == charge_organisation(Ledger, o, {o}) = Ledger

\* This step recorded a ledger row for o.
ChargedInStep(o) ==
    CountRows(billings', OwnRowsInTerm(billings', o))
        > CountRows(billings, OwnRowsInTerm(billings, o))

\* C2: once the overage pass has charged an organisation and recorded the
\* row, every later run in the same term with unchanged usage computes an
\* overage <= 0, makes no billing call and records no row: the step that
\* charges establishes it, and every step that leaves the usage unchanged
\* keeps it.
C2_NeverBillsTwice ==
    [][\A o \in CachedOrganisations :
          ((ChargedInStep(o) \/ OverageCovered(o)) /\ api_usage'[o] = api_usage[o])
              => (OverageCovered(o)' /\ NoCharge(o)')]_vars

\* C2 witness: an organisation still inside its closing window, over twice
\* its allowance, has been charged this term and its usage is covered.
C2_Witness ==
    \E o \in charge_candidates :
        /\ OwnRowsInTerm(billings, o) # {}
        /\ Len(chargebee) > 0
        /\ api_usage[o] >= 2 * subscription[o].cache.allowed_30d_api_calls
        /\ OverageCovered(o)

\* The store with only the rows of organisation o in it.
OwnBag(bag, o) ==
    [r \in {x \in Rows(bag) : x.organisation = o} |-> CopiesIn(r, bag)]

\* C3: an organisation's decision does not depend on the rows of the other
\* organisations: on the store as it is and on the store holding only its
\* own rows, the notification flow makes the same send/skip decision, and
\* the overage pass computes the same previous_api_overage and makes the
\* same billing calls.
C3_IndependentOfOtherOrganisations ==
    \A o \in Organisations :
        /\ LET own == OwnBag(notifications, o)
           IN  (_handle_api_usage_notifications(notifications, o, api_usage[o]) = notifications)
                   <=> (_handle_api_usage_notifications(own, o, api_usage[o]) = own)
        /\ o \in CachedOrganisations =>
               LET own == OwnBag(billings, o)
               IN  /\ previous_api_overage(billings, o) = previous_api_overage(own, o)
                   /\ charge_organisation(Ledger, o, {o}).chargebee
                          = charge_organisation([Ledger EXCEPT !.billings = own],
                                                o, {o}).chargebee

\* The overage half of C3 alone.
C3_OverageIndependent ==
    \A o \in CachedOrganisations :
        previous_api_overage(billings, o) = previous_api_overage(OwnBag(billings, o), o)

\* The maximum threshold <= percent ({} when there is none).
MaxAtMost(ths, percent) ==
    LET below == {ths[i] : i \in {j \in DOMAIN ths : ths[j] <= percent}}
    IN  IF below = {} THEN {}
        ELSE {CHOOSE x \in below : \A y \in below : y <= x}

UsagePercent(o) == api_usage_percent(api_usage[o], allowed_api_calls(o))

\* The matching yields the maximum threshold <= usage-percent for every
\* organisation, and the flow creates one notification at that threshold
\* unless a notification at or above it exists in the period.
MatchIsMaximum ==
    \A o \in Organisations :
        LET best == MaxAtMost(thresholds, UsagePercent(o))
        IN  /\ matched_threshold(thresholds, UsagePercent(o)) = best
            /\ _handle_api_usage_notifications(notifications, o, api_usage[o]) =
                   IF \/ best = {}
                      \/ \E r \in Rows(notifications), t \in best :
                            /\ r.notified_at > period_starts_at(o, now)
                            /\ r.percent_usage >= t
                   THEN notifications
                   ELSE AddRow(notifications,
                               [organisation |-> o,
                                percent_usage |-> CHOOSE t \in best : TRUE,
                                notified_at |-> now])

\* C4 as stated: for every threshold list sorted descending the matching
\* yields the maximum threshold <= usage-percent, or none.
C4_DescendingMatch == IsDescending(thresholds) => MatchIsMaximum

\* C4 amended: for every threshold list sorted ascending the matching
\* yields the maximum threshold <= usage-percent, or none when the
\* usage-percent is below every threshold.
C4_AscendingMatch == IsAscending(thresholds) => MatchIsMaximum

\* C4 witness: limit 1000 and usage 950 under <<50, 75, 90, 100>>, and the
\* notification at 90 has been created.
C4_Witness ==
    /\ thresholds = AscendingThresholds
    /\ allowed_api_calls(1) = 1000
    /\ api_usage[1] = 950
    /\ matched_threshold(thresholds, UsagePercent(1)) = {90}
    /\ [organisation |-> 1, percent_usage |-> 90, notified_at |-> now]
           \in Rows(notifications)

\* ---------------------------------------------------- access restriction
\* o has a >= 100% notification in the last 30 days.
HasRecentBreach(o) ==
    \E r \in Rows(notifications) :
        /\ r.organisation = o
        /\ r.percent_usage >= 100
        /\ r.notified_at > now - Days(30)

\* o has a >= 100% notification older than the grace period and newer than
\* 30 days ago.
HasBreachPastGrace(o) ==
    \E r \in Rows(notifications) :
        /\ r.organisation = o
        /\ r.percent_usage >= 100
        /\ r.notified_at < now - Days(API_USAGE_GRACE_PERIOD)
        /\ r.notified_at > now - Days(30)

HasFlag(o) == stop_serving_flags[o] \/ block_access_to_admin[o]

\* C5: after any sequence of notification, apply and lift passes an
\* organisation has an AccessBlock if and only if at least one of its
\* restriction flags is true.
C5_BlockIffFlag ==
    \A o \in Organisations : api_limit_access_block[o] <=> HasFlag(o)

\* C5 witness: an apply pass has set exactly one flag of an organisation
\* and created its AccessBlock.
C5_Witness ==
    \E o \in Organisations :
        /\ api_limit_access_block[o]
        /\ stop_serving_flags[o] # block_access_to_admin[o]

Restricted(o) == api_limit_access_block[o] \/ HasFlag(o)

\* C6: an organisation goes from unrestricted to restricted only in an apply
\* pass, and only if at the time of the pass it is on the free plan, has no
\* AccessBlock, does not have both flags true, has a >= 100% notification
\* older than the grace period and newer than 30 days ago, and at least one
\* of the two feature gates is enabled for it; the pass then sets a flag
\* and creates the AccessBlock.
C6_RestrictOnlyWhen ==
    [][\A o \in Organisations :
          (~Restricted(o) /\ Restricted(o)') =>
              /\ is_free_plan(o)
              /\ ~api_limit_access_block[o]
              /\ ~(stop_serving_flags[o] /\ block_access_to_admin[o])
              /\ HasBreachPastGrace(o)
              /\ api_limit_access_block'[o] /\ HasFlag(o)'
              /\ \E stop_serving \in SUBSET Organisations,
                     block_access \in SUBSET Organisations :
                     /\ o \in stop_serving \cup block_access
                     /\ restrict_with(stop_serving, block_access)]_vars

\* C6 witness: a free organisation is restricted and its >= 100%
\* notification is past the grace period and inside the 30 days.
C6_Witness ==
    \E o \in Organisations :
        /\ is_free_plan(o)
        /\ api_limit_access_block[o]
        /\ HasFlag(o)
        /\ HasBreachPastGrace(o)

\* The organisations with an AccessBlock and no >= 100% notification in the
\* last 30 days.
LiftSet == {o \in Organisations : api_limit_access_block[o] /\ ~HasRecentBreach(o)}

\* C7: the lift pass changes exactly the organisations with an AccessBlock
\* and without a >= 100% notification in the last 30 days: both flags
\* become false and the AccessBlock is deleted; the flags and AccessBlock
\* of every other organisation are unchanged.
C7_LiftFrame ==
    [][unrestrict_after_api_limit_grace_period_is_stale =>
          \A o \in Organisations :
              IF o \in LiftSet
              THEN /\ ~stop_serving_flags'[o]
                   /\ ~block_access_to_admin'[o]
                   /\ ~api_limit_access_block'[o]
              ELSE /\ stop_serving_flags'[o] = stop_serving_flags[o]
                   /\ block_access_to_admin'[o] = block_access_to_admin[o]
                   /\ api_limit_access_block'[o] = api_limit_access_block[o]]_vars

\* C7 witness: a lift pass is due for one blocked organisation while
\* another blocked organisation is still breaching.
C7_Witness ==
    \E o, p \in Organisations :
        /\ o \in LiftSet
        /\ HasFlag(o)
        /\ api_limit_access_block[p]
        /\ HasRecentBreach(p)

\* C8: at every instant the organisations the apply pass would restrict and
\* those the lift pass would unrestrict are disjoint; an organisation just
\* restricted is not one the lift pass would lift, and one just lifted is
\* not one the apply pass would restrict.
C8_ApplyLiftDisjoint ==
    /\ [](restrict_organisations \cap matching_organisations = {})
    /\ [][\A o \in Organisations :
             (~api_limit_access_block[o] /\ api_limit_access_block'[o])
                 => o \notin matching_organisations']_vars
    /\ [][\A o \in Organisations :
             (api_limit_access_block[o] /\ ~api_limit_access_block'[o])
                 => o \notin restrict_organisations']_vars

\* C8 witness: one organisation is due to be restricted while another is
\* due to be lifted.
C8_Witness ==
    /\ restrict_organisations # {}
    /\ matching_organisations # {}

\* The instants of the clock, and the last of them.
Instants == {StartOfRun + Days(TickDays * k) : k \in 0..(MaxDays \div TickDays)}
LastInstant == StartOfRun + Days(TickDays * (MaxDays \div TickDays))

\* o's latest >= 100% notification was made at t.
LatestBreachAt(o, t) ==
    /\ \E r \in Rows(notifications) :
           r.organisation = o /\ r.percent_usage >= 100 /\ r.notified_at = t
    /\ \A r \in Rows(notifications) :
           (r.organisation = o /\ r.percent_usage >= 100) => r.notified_at <= t

\* C9: a restricted organisation that receives no new >= 100% notification
\* is eventually unrestricted. Once its latest >= 100% notification is 30
\* days old the next lift pass deletes the AccessBlock and resets both
\* flags; and while the clock can still reach that day, a restricted
\* organisation whose latest notification stays the same gets there.
C9_EventuallyLifted ==
    \A o \in Organisations :
        /\ (api_limit_access_block[o] /\ ~HasRecentBreach(o))
               ~> (~Restricted(o) \/ HasRecentBreach(o))
        /\ \A t \in {i \in Instants : i + Days(30) <= LastInstant} :
               (api_limit_access_block[o] /\ LatestBreachAt(o, t))
                   ~> (~Restricted(o) \/ ~LatestBreachAt(o, t))

\* C9 witness: a restricted organisation whose latest >= 100% notification
\* has become 30 days old, before the lift pass runs.
C9_Witness ==
    \E o \in Organisations :
        /\ api_limit_access_block[o]
        /\ HasFlag(o)
        /\ ~HasRecentBreach(o)
        /\ \E t \in Instants : LatestBreachAt(o, t) /\ t + Days(30) <= now

\* The sum of api_overage over o's own ledger rows of the current term.
OwnBilledInTerm(bills, o) == SumOverage(bills, OwnRowsInTerm(bills, o))

\* C10 as stated: the sum of api_overage over the rows the overage pass has
\* recorded for an organisation within the term never exceeds the usage the
\* pass measured for it.
C10_BilledAtMostUsage ==
    [][\A o \in CachedOrganisations :
          ChargedInStep(o) => OwnBilledInTerm(billings', o) <= api_usage[o]]_vars

\* C10 amended: that sum exceeds the usage the charging run measured by
\* less than one increment of 100,000 calls.
C10_BilledBelowUsagePlusIncrement ==
    [][\A o \in CachedOrganisations :
          ChargedInStep(o) =>
              OwnBilledInTerm(billings', o) < api_usage[o] + API_CALLS_PER_UNIT]_vars

\* C10 witness: an organisation has been charged twice within its term, as
\* its usage grew, and what it was billed exceeds its usage.
C10_Witness ==
    \E o \in charge_candidates :
        /\ CountRows(billings, OwnRowsInTerm(billings, o)) >= 2
        /\ Len(chargebee) >= 2
        /\ OwnBilledInTerm(billings, o) > api_usage[o]

\* ------------------------------------------------------ overage arithmetic
\* ceil(n / d) for n > 0, as the least k with n <= k * d.
CeilDiv(n, d) == CHOOSE k \in 1..((n \div d) + 1) : (k - 1) * d < n /\ n <= k * d

\* The loop body run on the present ledger for o, its feature enabled and
\* every call returning, tells u, a and p apart as the claim does: nothing
\* below twice the allowance or with u - (a + p) <= 0; otherwise, when
\* `billed` holds for the plan, one billing call with ceil((u - a - p) /
\* 100000) units and one row of 100000 times that, and nothing when it
\* does not hold. p is the sum the pass computes over the rows billed
\* since the term's start.
ChargeContract(o, billed) ==
    LET u == api_usage[o]
        a == subscription[o].cache.allowed_30d_api_calls
        p == previous_api_overage(billings, o)
        after == charge_organisation(Ledger, o, {o})
    IN  IF u < 2 * a \/ u - (a + p) <= 0 THEN after = Ledger
        ELSE IF ~billed THEN after = Ledger
        ELSE LET units == CeilDiv(u - a - p, 100000)
             IN  /\ Len(after.chargebee) = Len(chargebee) + 1
                 /\ SubSeq(after.chargebee, 1, Len(chargebee)) = chargebee
                 /\ after.chargebee[Len(after.chargebee)].count = units
                 /\ after.chargebee[Len(after.chargebee)].subscription_id
                        = subscription[o].subscription_id
                 /\ after.billings =
                        AddRow(billings, [organisation |-> o,
                                          api_overage |-> 100000 * units,
                                          billed_at |-> now])

C12_FailureDoesNotAbort ==
    /\ \A order \in Orders, alerting \in SUBSET Organisations,
          fault \in NotificationFaults :
           notification_pass(notifications, order, alerting, fault).visited = order
    /\ \A order \in Orders, charging \in SUBSET charge_candidates,
          fault \in ChargeFaults :
           charge_pass(billings, chargebee, order, charging, fault).visited
               = CandidatesIn(order)

\* ------------------------------------------------ overlapping invocations
\* C13: under any interleaving of two overlapping invocations of the same
\* pass the log holds at most one row per (organisation, period,
\* threshold), and an organisation whose measured usage stays the same has
\* at most one billing row in its term and no more billing calls than rows.
C13_NoDuplicateUnderOverlap ==
    /\ \A o \in Organisations, t \in EvaluationTimes, i \in DOMAIN thresholds :
           CountRows(notifications, RowsInPeriod(o, thresholds[i], t)) <= 1
    /\ \A o \in CachedOrganisations :
           CountRows(billings, OwnRowsInTerm(billings, o)) <= 1
    /\ Len(chargebee) <= Cardinality(CachedOrganisations)

\* The notification half of C13 alone.
C13_NoDuplicateNotification ==
    \A o \in Organisations, t \in EvaluationTimes, i \in DOMAIN thresholds :
        CountRows(notifications, RowsInPeriod(o, thresholds[i], t)) <= 1

\* The billing half of C13 alone.
C13_NoDuplicateCharge ==
    \A o \in CachedOrganisations :
        CountRows(billings, OwnRowsInTerm(billings, o)) <= 1

\* ---------------------------------------------------- period resolution
\* The whole months elapsed from t0 to t1 (t0 <= t1): the k with
\* t0 + k months <= t1 < t0 + (k + 1) months.
MonthsElapsed(t0, t1) ==
    CHOOSE k \in 0..36 : AddMonths(t0, k) <= t1 /\ t1 < AddMonths(t0, k + 1)

\* C14: for a paid organisation with a billing cache whose term started at
\* or before now, period-start is the term start advanced by the whole
\* months elapsed since, period-start <= now < period-start + 1 month, and
\* the usage window is the days elapsed from period-start to now; for a
\* free organisation period-start is now - 30 days and the window 30 days.
C14_PeriodResolution ==
    \A o \in Organisations :
        IF is_free_plan(o)
        THEN /\ period_starts_at(o, now) = now - Days(30)
             /\ usage_window_days(o, now) = 30
        ELSE (/\ has_subscription_information_cache(o)
              /\ subscription[o].cache.current_billing_term_starts_at <= now) =>
                 LET billing_starts_at == subscription[o].cache.current_billing_term_starts_at
                     starts_at == period_starts_at(o, now)
                 IN  /\ starts_at = AddMonths(billing_starts_at,
                                              MonthsElapsed(billing_starts_at, now))
                     /\ starts_at <= now
                     /\ now < AddMonths(starts_at, 1)
                     /\ usage_window_days(o, now) = (now - starts_at) \div 24

\* C14 for a term that started on the 15th less than twelve months ago.
C14_PeriodResolutionMidMonth ==
    (\A o \in Organisations :
        ~is_free_plan(o) =>
            /\ DayOf(subscription[o].cache.current_billing_term_starts_at) = 15
            /\ now < AddMonths(subscription[o].cache.current_billing_term_starts_at, 12))
        => C14_PeriodResolution

\* ----------------------------------------------------- the missing cache
\* The non-free organisations without a subscription information cache.
UncachedOrganisations ==
    {o \in Organisations : ~is_free_plan(o) /\ ~has_subscription_information_cache(o)}

\* The faults that concern organisation o only: none, or a call failing
\* while o is processed.
FaultsAt(o) == {f \in NotificationFaults : f.organisation \in {0, o}}

\* C15: for a non-free organisation without a subscription information
\* cache the notification flow makes no usage query (a failing query goes
\* unnoticed), appends no row and raises nothing, and the pass gets to
\* every organisation and leaves the organisation's rows as they were.
C15_MissingCacheSkipped ==
    \A o \in UncachedOrganisations :
        /\ \A u \in UsageValues, fault \in FaultsAt(o) :
               /\ handle_raises(notifications, o, u, fault) = "none"
               /\ _handle_api_usage_notifications(notifications, o, u) = notifications
        /\ \A order \in Orders, alerting \in SUBSET Organisations, fault \in FaultsAt(o) :
               LET pass == notification_pass(notifications, order, alerting, fault)
               IN  /\ pass.raised = "none"
                   /\ pass.visited = order
                   /\ OwnBag(pass.rows, o) = OwnBag(notifications, o)
                   /\ \A p \in alerting \ {o} :
                          OwnBag(pass.rows, p) =
                              OwnBag(notification_pass(notifications, order,
                                                       alerting \ {o}, NoFault).rows, p)

\* C15 witness: a pass has notified the other organisation while the paid
\* organisation without a cache, over its limit, has no row.
C15_Witness ==
    \E o \in UncachedOrganisations, p \in Organisations :
        /\ api_usage[o] >= 2100
        /\ OwnBag(notifications, o) = EmptyBag
        /\ \E r \in Rows(notifications) : r.organisation = p /\ r.notified_at = now

\* ---------------------------------------------------- the unsupported plan
\* The candidates of the overage pass with a positive overage on a plan
\* that is neither a scale-up nor a start-up plan.
UnsupportedWithOverage ==
    {o \in charge_candidates :
        /\ subscription[o].plan \notin {SCALE_UP, SCALE_UP_V2, STARTUP, STARTUP_V2}
        /\ api_usage[o] >= 2 * subscription[o].cache.allowed_30d_api_calls
        /\ api_overage_of(billings, o, api_usage[o]) > 0}

\* The billing calls made for organisation o.
CallsFor(calls, o) ==
    SelectSeq(calls, LAMBDA c : c.subscription_id = subscription[o].subscription_id)

\* C16: when the overage pass reaches an organisation with positive overage
\* on a plan that is neither scale-up nor start-up, it makes no billing
\* call (so none can fail), records no row for it, and goes on to the
\* organisations after it.
C16_UnsupportedPlanSkipped ==
    \A o \in UnsupportedWithOverage :
        /\ charge_organisation(Ledger, o, {o}) = Ledger
        /\ \A order \in Orders, charging \in SUBSET charge_candidates,
              fault \in {NoFault,
                         [organisation |-> o, call |-> "add_100k_api_calls",
                          raises |-> "Exception"]} :
               LET pass == charge_pass(billings, chargebee, order, charging, fault)
               IN  /\ pass.raised = "none"
                   /\ pass.visited = CandidatesIn(order)
                   /\ CallsFor(pass.chargebee, o) = CallsFor(chargebee, o)
                   /\ OwnBag(pass.billings, o) = OwnBag(billings, o)

\* C16 witness: the pass has just charged the start-up organisation while
\* the organisation on the other plan, with a positive overage, has no
\* billing call and no row.
C16_Witness ==
    \E o \in UnsupportedWithOverage, p \in charge_candidates :
        /\ CallsFor(chargebee, o) = <<>>
        /\ OwnBag(billings, o) = EmptyBag
        /\ CallsFor(chargebee, p) # <<>>
        /\ \E r \in Rows(billings) : r.organisation = p /\ r.billed_at = now

\* ------------------------------------------------------- feature gates
\* Organisation o's flags and AccessBlock are left as they were.
RestrictionUnchanged(o) ==
    /\ stop_serving_flags'[o] = stop_serving_flags[o]
    /\ block_access_to_admin'[o] = block_access_to_admin[o]
    /\ api_limit_access_block'[o] = api_limit_access_block[o]

\* C17: a pass does nothing for an organisation whose feature is disabled.
\* Whatever the order and the other organisations' gates: with
\* api_usage_alerting off the notification pass appends no row for it;
\* with api_usage_overage_charges off the overage pass makes no billing
\* call and records no row for it; with both api_limiting gates off the
\* apply pass leaves its flags unchanged and creates no AccessBlock.
C17_GatesBlockEveryAction ==
    /\ [](\A o \in Organisations :
            /\ \A order \in Orders, alerting \in SUBSET (Organisations \ {o}) :
                   OwnBag(notification_pass(notifications, order, alerting, NoFault).rows, o)
                       = OwnBag(notifications, o)
            /\ \A order \in Orders, charging \in SUBSET (charge_candidates \ {o}) :
                   LET pass == charge_pass(billings, chargebee, order, charging, NoFault)
                   IN  /\ OwnBag(pass.billings, o) = OwnBag(billings, o)
                       /\ CallsFor(pass.chargebee, o) = CallsFor(chargebee, o))
    /\ [][\A stop_serving \in SUBSET Organisations, block_access \in SUBSET Organisations :
             restrict_with(stop_serving, block_access) =>
                 \A o \in Organisations \ (stop_serving \cup block_access) :
                     RestrictionUnchanged(o)]_vars

\* C17 witness: a notification pass has just written a row for one
\* organisation and none for the other, whose notification is still due.
C17_Witness ==
    \E o, p \in Organisations :
        /\ o # p
        /\ notification_due(notifications, o, api_usage[o])
        /\ \E r \in Rows(notifications) : r.organisation = p /\ r.notified_at = now

\* ------------------------------------------------------ retry after a failure
\* The organisations the loop processes before it gets to o.
Before(order, o) ==
    SubSeq(order, 1, (CHOOSE i \in DOMAIN order : order[i] = o) - 1)

\* C18: when the usage query, the template or the billing mutation fails
\* for an organisation during a pass, the pass writes no notification row
\* and no APIBilling row for it, and the next pass, every call returning,
\* performs for it the notification or the charge the failed one was
\* about to make.
C18_FailedCallIsRetried ==
    /\ \A order \in Orders, alerting \in SUBSET Organisations,
          fault \in NotificationFaults \ {NoFault} :
           LET o == fault.organisation
               usage == api_usage[o]
               at_turn == notification_pass(notifications, Before(order, o),
                                            alerting, NoFault).rows
               pass == notification_pass(notifications, order, alerting, fault)
           IN  (o \in alerting /\ handle_raises(at_turn, o, usage, fault) # "none") =>
                   /\ OwnBag(pass.rows, o) = OwnBag(notifications, o)
                   /\ notification_due(at_turn, o, usage)
                          => notification_due(pass.rows, o, usage)
    /\ \A order \in Orders, charging \in SUBSET charge_candidates,
          fault \in ChargeFaults \ {NoFault} :
           LET o == fault.organisation
               at_turn == charge_pass(billings, chargebee, Before(order, o),
                                      charging, NoFault)
               pass == charge_pass(billings, chargebee, order, charging, fault)
           IN  (o \in charging /\ charge_raises(at_turn, o, charging, fault) # "none") =>
                   /\ OwnBag(pass.billings, o) = OwnBag(billings, o)
                   /\ CallsFor(pass.chargebee, o) = CallsFor(chargebee, o)
                   /\ charge_organisation(at_turn, o, {o}) # at_turn
                          => charge_organisation(pass, o, {o}) # pass

\* The first half of C18 alone: the failed pass writes no row and makes no
\* billing call for the organisation.
C18_NoMarkerWritten ==
    /\ \A order \in Orders, alerting \in SUBSET Organisations,
          fault \in NotificationFaults \ {NoFault} :
           LET o == fault.organisation
               at_turn == notification_pass(notifications, Before(order, o),
                                            alerting, NoFault).rows
               pass == notification_pass(notifications, order, alerting, fault)
           IN  (o \in alerting /\ handle_raises(at_turn, o, api_usage[o], fault) # "none")
                   => OwnBag(pass.rows, o) = OwnBag(notifications, o)
    /\ \A order \in Orders, charging \in SUBSET charge_candidates,
          fault \in ChargeFaults \ {NoFault} :
           LET o == fault.organisation
               at_turn == charge_pass(billings, chargebee, Before(order, o),
                                      charging, NoFault)
               pass == charge_pass(billings, chargebee, order, charging, fault)
           IN  (o \in charging /\ charge_raises(at_turn, o, charging, fault) # "none") =>
                   /\ OwnBag(pass.billings, o) = OwnBag(billings, o)
                   /\ CallsFor(pass.chargebee, o) = CallsFor(chargebee, o)

\* ------------------------------------------------------ the apply pass's writes
\* C19: the apply pass only sets restriction flags: whichever gates are
\* enabled, a flag of an organisation that was true before the pass is
\* true after it.
C19_ApplyOnlySetsFlags ==
    [][restrict_use_due_to_api_limit_grace_period_over =>
          \A o \in Organisations :
              /\ stop_serving_flags[o] => stop_serving_flags'[o]
              /\ block_access_to_admin[o] => block_access_to_admin'[o]]_vars

\* --------------------------------------------------- what a charge covers
\* C20: right after the overage pass charges an organisation, its
\* allowance plus the sum of its own rows billed within the term covers
\* its measured usage and exceeds it by less than one increment.
C20_ChargeCoversUsage ==
    [][\A o \in CachedOrganisations :
          ChargedInStep(o) =>
              LET covered == subscription[o].cache.allowed_30d_api_calls
                                 + OwnBilledInTerm(billings', o)
              IN  /\ api_usage[o] <= covered
                  /\ covered < api_usage[o] + API_CALLS_PER_UNIT]_vars

====
